---- MODULE Spec2Model ----
(***************************************************************************)
(* The tiered figure store of rundemo (src/main.go): the two HTTP handlers *)
(* handleCowUpsert (POST /cows/{cow}) and handleCowSay (GET /cows/{cow}),  *)
(* the Redis helpers getRedisVal / setRedisVal and the SQL helpers         *)
(* passThroughSaveVal / passThroughGetVal.                                 *)
(*                                                                         *)
(* Every request is served on its own goroutine (net/http), so the model   *)
(* runs the handlers as processes whose atomic steps are the single tier   *)
(* commands (GET, SET, EXPIRE on Redis; the upsert and the SELECT on SQL). *)
(* A tier command either takes effect and answers, or fails; which one is  *)
(* the environment's choice.  A message is a sequence of lines; the empty  *)
(* message is the empty sequence.                                          *)
(***************************************************************************)
EXTENDS Integers, Sequences, FiniteSets, TLC

(* ------------------------------ bounds --------------------------------- *)

\* number of requests that can be in flight together
NumProcs == 2

\* number of requests one caller issues, one after the other
MaxOps == 4

\* number of requests concurrent callers issue between them
MaxConcurrentOps == 2

Procs == 1..NumProcs

\* figure names ({cow} of the route)
Names == {"alice", "bob"}

\* texts a stored figure can have, the empty text included
Msgs == {<<>>, <<"hello">>}

(* --------------------------- program constants ------------------------- *)

\* c.Send("EXPIRE", key, "20")
TTL == 20

StatusOK == 200
StatusCreated == 201
StatusNotFound == 404
StatusInternalServerError == 500

\* the handler did not answer: its goroutine panicked and net/http dropped
\* the connection
NoStatus == 0

\* the time to live of a key that SET wrote and no EXPIRE has reached
NoExpiry == -1

\* how much time passes in one step of the clock: just less than the
\* expiration, or the whole of it
Elapse == {TTL - 1, TTL}

(* ------------------------------- state --------------------------------- *)

VARIABLES
    env,        \* which of REDIS_HOST and DB_NAME the environment sets
    redispool,  \* wcs.redispool /= nil
    db,         \* wcs.db /= nil
    cache,      \* the Redis keyspace: key -> [val, ttl]
    table,      \* the rows of table cows: name -> message
    held,       \* the messages table cows has ever held for each name
    pc,         \* where each request stands
    rq,         \* each request in flight: arguments, locals, response, history
    last,       \* what is remembered of the request that ended last
    since,      \* seconds since it ended (counted up to TTL)
    nops,       \* requests issued so far
    run,        \* how far the behaviour has followed ExampleRun
    clients     \* how many requests the clients keep in flight at most

vars ==
    <<env, redispool, db, cache, table, held, pc, rq, last, since, nops, run,
      clients>>

\* A request's err names how it failed: "NoStorageAvailable",
\* "BodyReadFailed", "RenderFailed", "CacheWriteFailed", "DurableWriteFailed",
\* "NotFound", "DurableReadFailed", or "panic" when the handler's goroutine
\* panicked; "" when it did not fail.

\* the request before a request, as far as the next one is concerned
NoSummary ==
    [valid |-> FALSE, op |-> "none", cow |-> "alice", say |-> <<>>,
     status |-> NoStatus, body |-> <<>>, hit |-> FALSE, calls |-> <<>>]

NoRequest ==
    [op |-> "none", cow |-> "alice", say |-> <<>>, setErr |-> FALSE,
     status |-> NoStatus, err |-> "", body |-> <<>>, hit |-> FALSE,
     calls |-> <<>>, alone |-> FALSE, gap |-> 0, prev |-> NoSummary]

\* no tier command of request r failed
Clean(r) == \A i \in 1..Len(r.calls) : r.calls[i][2] # "err"

\* What the next request remembers of request r: only a request that ran
\* alone, without a failing tier command, and succeeded is remembered.
Summary(r) ==
    IF r.alone /\ Clean(r) /\ r.status \in {StatusOK, StatusCreated}
    THEN [valid |-> TRUE, op |-> r.op, cow |-> r.cow, say |-> r.say,
          status |-> r.status, body |-> r.body, hit |-> r.hit,
          calls |-> r.calls]
    ELSE NoSummary

InFlight(p) == pc[p] # "idle"

\* The run of requests the behaviour is followed along: the upsert of figure
\* alice with text hello, two GETs of alice and a GET of bob, sent one after
\* the other from the empty stores, with no time passing in between and no
\* tier command failing.
ExampleRun ==
    << [op |-> "POST", cow |-> "alice", say |-> <<"hello">>],
       [op |-> "GET", cow |-> "alice", say |-> <<>>],
       [op |-> "GET", cow |-> "alice", say |-> <<>>],
       [op |-> "GET", cow |-> "bob", say |-> <<>>] >>

\* the behaviour has left ExampleRun
OffRun == -1

\* request r, as it arrives, is the k-th request of ExampleRun
IsExample(r, k) ==
    /\ k \in 1..Len(ExampleRun)
    /\ r.status = NoStatus
    /\ [op |-> r.op, cow |-> r.cow, say |-> r.say] = ExampleRun[k]

Quiescent == \A q \in Procs : ~InFlight(q)

Min(a, b) == IF a < b THEN a ELSE b

\* the Redis server drops a key once its time to live has run out
Live(e, d) == e.ttl = NoExpiry \/ d < e.ttl

\* a key d seconds later
Aged(e, d) ==
    [e EXCEPT !.ttl = IF @ = NoExpiry THEN @ ELSE @ - d]

\* no key, no row
EmptyMap == [n \in {} |-> <<>>]

(* ------------------------ the branches of the code ---------------------- *)

\* the hit test with the error test the wrong way round
CacheHitInverted(t, err) == err /\ t # <<>>

\* handleCowSay: "if err == nil && t != """
CacheHit(t, err) == ~err /\ t # <<>>

\* the answer without the test for sql.ErrNoRows: every error is a 500
handleCowSayAnswerNoRowsTest(r, outcome, text) ==
    IF outcome \in {"norows", "err"}
    THEN [r EXCEPT !.status = StatusInternalServerError,
                   !.err = "DurableReadFailed"]
    ELSE [r EXCEPT !.status = StatusOK, !.body = text]

\* handleCowSay: the answer to what passThroughGetVal returned
\* (sql.ErrNoRows, another error, or the text)
handleCowSayAnswer(r, outcome, text) ==
    IF outcome = "norows"
    THEN [r EXCEPT !.status = StatusNotFound, !.err = "NotFound"]
    ELSE IF outcome = "err"
    THEN [r EXCEPT !.status = StatusInternalServerError,
                   !.err = "DurableReadFailed"]
    ELSE [r EXCEPT !.status = StatusOK, !.body = text]

\* the upsert's error logged instead of returned: the cache is written anyway
passThroughSaveValNextAnyway(execErr) == "set"

\* passThroughSaveVal: what follows db.Exec ("if err != nil return err",
\* else setRedisVal)
passThroughSaveValNext(execErr) == IF execErr THEN "return" ELSE "set"

\* the cache error returned instead of logged
passThroughSaveValErrReturned(setErr) == setErr

\* passThroughSaveVal: the error it returns once setRedisVal has returned
\* (the cache error is logged and dropped)
passThroughSaveValErr(setErr) == FALSE

\* the text returned without the cache being written
passThroughGetValNextNoCache(queryErr) == "return"

\* the cache written whatever the SELECT returned
passThroughGetValNextAnyway(queryErr) == "set"

\* passThroughGetVal: what follows the SELECT ("if err != nil return",
\* else setRedisVal)
passThroughGetValNext(queryErr) == IF queryErr THEN "return" ELSE "set"

\* the cache error returned instead of logged
passThroughGetValErrReturned(setErr) == setErr

\* passThroughGetVal: the error it returns once setRedisVal has returned
\* (the cache error is logged and dropped)
passThroughGetValErr(setErr) == FALSE

\* the test for a missing store left out of the upsert
handleCowUpsertNoStoreUnchecked == FALSE

\* handleCowUpsert: "if wcs.redispool == nil && wcs.db == nil"
handleCowUpsertNoStore == ~redispool /\ ~db

\* handleCowSay: "if wcs.redispool == nil && wcs.db == nil"
handleCowSayNoStore == ~redispool /\ ~db

\* the placeholder without the figure's name
GreetingNameless(cow) == <<"Hi, I'm a cow. Temporary. Don't count on me~">>

\* a database opened only next to a Redis pool
initDBBesideRedis(e) == e.DB_NAME /\ e.REDIS_HOST

\* initDB: nil "if sqlconn.Database == """, else the connection pool
initDB(e) == e.DB_NAME

\* initRedis: nil "if redisconn.Host == """, else the pool
initRedis(e) == e.REDIS_HOST

\* the upsert without its conflict target: every row takes the message
upsertEveryRow(rows, cow, say) == [n \in DOMAIN rows \cup {cow} |-> say]

\* passThroughSaveVal: "INSERT INTO cows (name, message) VALUES ($1, $2)
\* ON CONFLICT(name) DO UPDATE SET message = excluded.message"
upsert(rows, cow, say) == (cow :> say) @@ rows

\* SET with the key sent in place of the value
setRedisValEntryOfKey(key, val) == [val |-> <<key>>, ttl |-> NoExpiry]

\* setRedisVal: c.Send("SET", key, val); the key has no time to live yet
setRedisValEntry(key, val) == [val |-> val, ttl |-> NoExpiry]

\* SET sent again when it failed
setRedisValNextRetry(setErr) == IF setErr THEN "set" ELSE "expire"

\* setRedisVal: EXPIRE follows SET in the same Flush, whatever SET's reply
setRedisValNext(setErr) == "expire"

\* fmt.Sprintf("Hi, I'm %s. Temporary. Don't count on me~", cow)
Greeting(cow) == <<"Hi, I'm ", cow, ". Temporary. Don't count on me~">>

\* The caller's answer once setRedisVal has returned setErr: handleCowUpsert
\* without a database, handleCowUpsert through passThroughSaveVal, or
\* handleCowSay through passThroughGetVal.
AfterSetRedisVal(r, setErr) ==
    IF r.op = "POST" /\ ~db
    THEN IF setErr
         THEN [r EXCEPT !.status = StatusInternalServerError,
                        !.err = "CacheWriteFailed"]
         ELSE [r EXCEPT !.status = StatusCreated]
    ELSE IF r.op = "POST"
    THEN IF passThroughSaveValErr(setErr)
         THEN [r EXCEPT !.status = StatusInternalServerError,
                        !.err = "DurableWriteFailed"]
         ELSE [r EXCEPT !.status = StatusCreated]
    ELSE handleCowSayAnswer(r,
             IF passThroughGetValErr(setErr) THEN "err" ELSE "row", r.say)

(* ------------------------------ the steps ------------------------------ *)

\* request p goes on to `next` with record r
Step(p, r, next) ==
    /\ pc' = [pc EXCEPT ![p] = next]
    /\ rq' = [rq EXCEPT ![p] = r]
    /\ UNCHANGED <<last, since, run>>

\* a GET that comes after a request for the same figure
Follows(r, l) == l.valid /\ r.op = "GET" /\ l.cow = r.cow

\* request p arrives with record r: it is alone if nothing else is in
\* flight, and whatever is in flight is no longer alone
Arrive(p, r, next) ==
    /\ pc[p] = "idle"
    /\ p <= clients
    /\ nops < (IF clients = 1 THEN MaxOps ELSE MaxConcurrentOps)
    /\ nops' = nops + 1
    /\ pc' = [pc EXCEPT ![p] = next]
    /\ rq' = [q \in Procs |->
                IF q = p
                THEN [r EXCEPT !.alone = Quiescent,
                               !.prev = IF Quiescent /\ Follows(r, last)
                                        THEN last ELSE NoSummary]
                ELSE IF InFlight(q)
                THEN [rq[q] EXCEPT !.alone = FALSE, !.prev = NoSummary,
                                   !.gap = 0]
                ELSE rq[q]]
    /\ run' = IF run # OffRun /\ Quiescent /\ IsExample(r, run + 1)
              THEN run ELSE OffRun
    /\ UNCHANGED <<last, since>>

\* The handler returns and net/http sends what it wrote (or, after a panic,
\* drops the connection); the request is over.
Respond(p) ==
    /\ pc[p] = "respond"
    /\ pc' = [pc EXCEPT ![p] = "idle"]
    /\ rq' = [rq EXCEPT ![p] = NoRequest]
    /\ last' = Summary(rq[p])
    /\ since' = 0
    /\ run' = IF run # OffRun /\ Clean(rq[p]) THEN run + 1 ELSE OffRun
    /\ UNCHANGED <<env, redispool, db, held, cache, table, nops, clients>>

\* setRedisVal is entered: without a pool it returns "Redis is not used" at
\* once, with one it sends SET and EXPIRE
EnterSetRedisVal(p, r) ==
    IF redispool
    THEN Step(p, r, "set")
    ELSE Step(p, AfterSetRedisVal(r, TRUE), "respond")

\* POST /cows/{cow}, up to the first tier command.  Without a database the
\* handler calls setRedisVal itself, which without a pool returns "Redis is
\* not used" at once.
handleCowUpsert(p) ==
    /\ UNCHANGED <<env, redispool, db, held, cache, table, clients>>
    /\ \E cow \in Names :
         LET r == [NoRequest EXCEPT !.op = "POST", !.cow = cow]
         IN  IF handleCowUpsertNoStore
             THEN Arrive(p, [r EXCEPT !.status = StatusInternalServerError,
                                      !.err = "NoStorageAvailable"], "respond")
             ELSE \/ Arrive(p, [r EXCEPT !.status = StatusInternalServerError,
                                         !.err = "BodyReadFailed"], "respond")
                  \/ Arrive(p, [r EXCEPT !.status = StatusInternalServerError,
                                         !.err = "RenderFailed"], "respond")
                  \/ \E say \in Msgs :
                       LET s == [r EXCEPT !.say = say]
                       IN  IF db THEN Arrive(p, s, "exec")
                           ELSE IF redispool THEN Arrive(p, s, "set")
                           ELSE Arrive(p, AfterSetRedisVal(s, TRUE), "respond")

\* GET /cows/{cow}, up to the first tier command
handleCowSay(p) ==
    /\ UNCHANGED <<env, redispool, db, held, cache, table, clients>>
    /\ \E cow \in Names :
         LET r == [NoRequest EXCEPT !.op = "GET", !.cow = cow]
         IN  IF handleCowSayNoStore
             THEN \/ Arrive(p, [r EXCEPT !.status = StatusInternalServerError,
                                         !.err = "RenderFailed"], "respond")
                  \/ Arrive(p, [r EXCEPT !.status = StatusOK,
                                         !.body = Greeting(cow)], "respond")
             ELSE Arrive(p, r, IF redispool THEN "get" ELSE "query")

\* getRedisVal and the hit test of handleCowSay.  Without a database the
\* fall-through calls QueryRow on the nil *sql.DB, which panics.
getRedisVal(p) ==
    /\ pc[p] = "get"
    /\ UNCHANGED <<env, redispool, db, held, cache, table, nops, clients>>
    /\ \E answered \in BOOLEAN :
         LET cow == rq[p].cow
             found == answered /\ cow \in DOMAIN cache
             t == IF found THEN cache[cow].val ELSE <<>>
             outcome == IF ~answered THEN "err"
                        ELSE IF ~found THEN "nil"
                        ELSE IF t = <<>> THEN "empty" ELSE "value"
             r == [rq[p] EXCEPT !.calls = Append(@, <<"GET", outcome>>),
                                !.gap = IF rq[p].prev.valid THEN since ELSE 0]
         IN  IF CacheHit(t, ~found)
             THEN Step(p, [r EXCEPT !.status = StatusOK, !.body = t,
                                    !.hit = TRUE], "respond")
             ELSE IF ~db
             THEN Step(p, [r EXCEPT !.err = "panic"], "respond")
             ELSE Step(p, r, "query")

\* passThroughSaveVal: the upsert into table cows
passThroughSaveVal(p) ==
    /\ pc[p] = "exec"
    /\ UNCHANGED <<env, redispool, db, cache, nops, clients>>
    /\ \E execErr \in BOOLEAN :
         LET r == [rq[p] EXCEPT !.calls =
                     Append(@, <<"EXEC", IF execErr THEN "err" ELSE "ok">>)]
         IN  /\ table' = IF execErr THEN table
                         ELSE upsert(table, r.cow, r.say)
             /\ held' = [n \in Names |->
                           IF n \in DOMAIN table'
                           THEN held[n] \cup {table'[n]} ELSE held[n]]
             /\ IF passThroughSaveValNext(execErr) = "set"
                THEN EnterSetRedisVal(p, r)
                ELSE Step(p, [r EXCEPT !.status = StatusInternalServerError,
                                       !.err = "DurableWriteFailed"], "respond")

\* passThroughGetVal: the SELECT from table cows
passThroughGetVal(p) ==
    /\ pc[p] = "query"
    /\ UNCHANGED <<env, redispool, db, held, cache, table, nops, clients>>
    /\ \E answered \in BOOLEAN :
         LET cow == rq[p].cow
             outcome == IF ~answered THEN "err"
                        ELSE IF cow \in DOMAIN table THEN "row" ELSE "norows"
             text == IF outcome = "row" THEN table[cow] ELSE <<>>
             r == [rq[p] EXCEPT !.calls = Append(@, <<"QUERY", outcome>>),
                                !.say = text]
         IN  IF passThroughGetValNext(outcome # "row") = "set"
             THEN EnterSetRedisVal(p, r)
             ELSE Step(p, handleCowSayAnswer(r, outcome, text), "respond")

\* setRedisVal: the SET command and its reply, the one reply the code reads
setRedisVal(p) ==
    /\ pc[p] = "set"
    /\ UNCHANGED <<env, redispool, db, held, table, nops, clients>>
    /\ \E setErr \in BOOLEAN :
         LET r == [rq[p] EXCEPT !.setErr = setErr, !.calls =
                     Append(@, <<"SET", IF setErr THEN "err" ELSE "ok">>)]
         IN  /\ cache' = IF setErr THEN cache
                         ELSE (r.cow :> setRedisValEntry(r.cow, r.say))
                              @@ cache
             /\ Step(p, r, setRedisValNext(setErr))

\* setRedisVal: the EXPIRE command, whose reply is never read, and the
\* return to the caller
setRedisValExpire(p) ==
    /\ pc[p] = "expire"
    /\ UNCHANGED <<env, redispool, db, held, table, nops, clients>>
    /\ \E expErr \in BOOLEAN :
         LET r == [rq[p] EXCEPT !.calls =
                     Append(@, <<"EXPIRE", IF expErr THEN "err" ELSE "ok">>)]
         IN  /\ cache' = IF ~expErr /\ r.cow \in DOMAIN cache
                         THEN [cache EXCEPT ![r.cow].ttl = TTL]
                         ELSE cache
             /\ Step(p, AfterSetRedisVal(r, r.setErr), "respond")

\* Time passes; Redis drops the keys whose time to live has run out.  SET
\* and EXPIRE leave in one Flush and the handler answers as soon as its last
\* tier command has returned, so no time passes there.
Tick ==
    /\ \A q \in Procs : pc[q] \notin {"expire", "respond"}
    /\ \E d \in Elapse :
         /\ cache' = [n \in {m \in DOMAIN cache : Live(cache[m], d)}
                        |-> Aged(cache[n], d)]
         /\ since' = IF last.valid THEN Min(since + d, TTL) ELSE since
    /\ run' = IF run > 0 THEN OffRun ELSE run
    /\ UNCHANGED <<env, redispool, db, held, table, pc, rq, last, nops,
                   clients>>

\* main: initRedis and initDB each return nil when their host / database
\* name is not set, independently of one another; both stores start empty
Start ==
    /\ env \in [REDIS_HOST : BOOLEAN, DB_NAME : BOOLEAN]
    /\ db = initDB(env)
    /\ redispool = initRedis(env)
    /\ cache = EmptyMap
    /\ table = EmptyMap
    /\ held = [n \in Names |-> {}]
    /\ pc = [p \in Procs |-> "idle"]
    /\ rq = [p \in Procs |-> NoRequest]
    /\ last = NoSummary
    /\ since = 0
    /\ nops = 0
    /\ run = IF redispool /\ db THEN 0 ELSE OffRun

\* one caller, who sends a request when the one before is answered
Init == Start /\ clients = 1

\* callers that send their requests at the same time
InitConcurrent == Start /\ clients = NumProcs

Next ==
    \/ \E p \in Procs : handleCowUpsert(p)
    \/ \E p \in Procs : handleCowSay(p)
    \/ \E p \in Procs : getRedisVal(p)
    \/ \E p \in Procs : passThroughSaveVal(p)
    \/ \E p \in Procs : passThroughGetVal(p)
    \/ \E p \in Procs : setRedisVal(p)
    \/ \E p \in Procs : setRedisValExpire(p)
    \/ \E p \in Procs : Respond(p)
    \/ Tick

Spec == Init /\ [][Next]_vars

SpecConcurrent == InitConcurrent /\ [][Next]_vars


(* ------------------------------ the claims ----------------------------- *)

\* the modes of the spec's table
Ephemeral == ~redispool /\ ~db
CacheOnly == redispool /\ ~db
Full == redispool /\ db

\* request p has its answer and has not yet gone
Answered(p) == pc[p] = "respond"

\* the i-th tier command of request r was cmd with outcome o
Did(r, i, cmd, o) == Len(r.calls) >= i /\ r.calls[i] = <<cmd, o>>

\* request r issued tier command cmd
Issued(r, cmd) == \E i \in 1..Len(r.calls) : r.calls[i][1] = cmd

\* Request r is a GET that a lone caller sends right after the request
\* r.prev for the same figure, which succeeded: nothing came in between,
\* no tier command of either failed, and the GET read the cache less than
\* the expiration time after r.prev ended.
RightAfter(r, op) ==
    /\ r.op = "GET"
    /\ r.alone
    /\ r.prev.valid
    /\ r.prev.op = op
    /\ r.prev.cow = r.cow
    /\ r.gap < TTL
    /\ Clean(r)

C2_CacheOnlyMissIsNotFound ==
    \A p \in Procs :
        (/\ Answered(p) /\ CacheOnly /\ rq[p].op = "GET"
         /\ (Did(rq[p], 1, "GET", "nil") \/ Did(rq[p], 1, "GET", "err")))
            => /\ rq[p].status = StatusNotFound
               /\ rq[p].err = "NotFound"
               /\ Len(rq[p].calls) = 1

\* C3: in Full mode a POST whose durable write fails answers 500
\* DurableWriteFailed, the failed upsert is the only tier command it issues
\* (no SET, no EXPIRE), and none of its steps changes the cache.
C3_DurableFailureSkipsCache ==
    /\ [](\A p \in Procs :
            (/\ Answered(p) /\ Full /\ rq[p].op = "POST"
             /\ Did(rq[p], 1, "EXEC", "err"))
                => /\ rq[p].status = StatusInternalServerError
                   /\ rq[p].err = "DurableWriteFailed"
                   /\ rq[p].calls = <<<<"EXEC", "err">>>>)
    /\ [][\A p \in Procs :
            (/\ pc[p] # pc'[p]
             /\ (Did(rq[p], 1, "EXEC", "err") \/ Did(rq'[p], 1, "EXEC", "err")))
                => cache' = cache]_vars

\* the witness of C3: a POST in Full mode answered after its upsert failed,
\* while the cache holds an entry
C3_Witness ==
    \E p \in Procs :
        /\ Answered(p) /\ Full /\ rq[p].op = "POST"
        /\ Did(rq[p], 1, "EXEC", "err")
        /\ rq[p].cow \in DOMAIN cache

\* C4: in Full mode a POST whose durable write succeeds answers 201 whatever
\* becomes of the cache write, and the durable tier then holds the message
\* for the name.
C4_CacheFailureSwallowed ==
    \A p \in Procs :
        (/\ Answered(p) /\ Full /\ rq[p].op = "POST"
         /\ Did(rq[p], 1, "EXEC", "ok"))
            => /\ rq[p].status = StatusCreated
               /\ rq[p].err = ""
               /\ rq[p].cow \in DOMAIN table
               /\ table[rq[p].cow] = rq[p].say

\* the witness of C4: the upsert succeeded, the SET failed, the answer is 201
C4_Witness ==
    \E p \in Procs :
        /\ Answered(p) /\ Full /\ rq[p].op = "POST"
        /\ Did(rq[p], 1, "EXEC", "ok")
        /\ Did(rq[p], 2, "SET", "err")
        /\ rq[p].status = StatusCreated

\* C5: in Full mode a GET whose cache read returns a non-empty value without
\* error answers 200 with that value and the cache-hit header, and the cache
\* read is the only tier command it issues: nothing goes to the durable tier.
C5_CacheHitSkipsDurable ==
    \A p \in Procs :
        (/\ Answered(p) /\ Full /\ rq[p].op = "GET"
         /\ Did(rq[p], 1, "GET", "value"))
            => /\ rq[p].status = StatusOK
               /\ rq[p].hit
               /\ rq[p].cow \in DOMAIN cache
               /\ rq[p].body = cache[rq[p].cow].val
               /\ rq[p].calls = <<<<"GET", "value">>>>

\* the witness of C5: a cache hit in Full mode while the durable tier holds
\* a row for the name
C5_Witness ==
    \E p \in Procs :
        /\ Answered(p) /\ Full /\ rq[p].op = "GET"
        /\ Did(rq[p], 1, "GET", "value")
        /\ rq[p].hit
        /\ rq[p].cow \in DOMAIN table

\* the first half of C6: a GET in Full mode that misses the cache and finds
\* the row answers 200 with the row's message and no cache-hit header
FirstGetFromDurable(r) ==
    (Full /\ r.op = "GET" /\ Did(r, 1, "GET", "nil") /\ Did(r, 2, "QUERY", "row"))
        => /\ r.status = StatusOK
           /\ r.cow \in DOMAIN table
           /\ r.body = table[r.cow]
           /\ ~r.hit

\* the second half of C6: the GET right after such a GET, before the
\* expiration, answers 200 with the same message and the cache-hit header
SecondGetFromCache(r) ==
    (Full /\ RightAfter(r, "GET") /\ Did(r.prev, 1, "GET", "nil"))
        => /\ r.status = StatusOK
           /\ r.body = r.prev.body
           /\ r.hit

C7_DurableOutcomeMapping ==
    \A p \in Procs :
        (/\ Answered(p) /\ Full /\ rq[p].op = "GET"
         /\ (Did(rq[p], 1, "GET", "nil") \/ Did(rq[p], 1, "GET", "err")))
            => /\ Len(rq[p].calls) >= 2
               /\ rq[p].calls[2][1] = "QUERY"
               /\ rq[p].calls[2][2] = "norows"
                    => rq[p].status = StatusNotFound /\ rq[p].err = "NotFound"
               /\ rq[p].calls[2][2] = "err"
                    => /\ rq[p].status = StatusInternalServerError
                       /\ rq[p].err = "DurableReadFailed"
               /\ rq[p].calls[2][2] = "row"
                    => rq[p].status = StatusOK /\ rq[p].err = ""

\* the witness of C7: the cache read failed, the durable tier has no row,
\* the answer is 404
C7_Witness ==
    \E p \in Procs :
        /\ Answered(p) /\ Full /\ rq[p].op = "GET"
        /\ Did(rq[p], 1, "GET", "err")
        /\ Did(rq[p], 2, "QUERY", "norows")
        /\ rq[p].status = StatusNotFound

\* C8: in Full mode a GET that finds the row after a cache miss answers 200
\* with the row's message and wasCacheHit = false, whether the SET and the
\* EXPIRE of the repopulation succeed or fail.
C8_RepopulationFailureHarmless ==
    \A p \in Procs :
        (/\ Answered(p) /\ Full /\ rq[p].op = "GET"
         /\ Did(rq[p], 2, "QUERY", "row"))
            => /\ Issued(rq[p], "SET")
               /\ rq[p].status = StatusOK
               /\ rq[p].err = ""
               /\ rq[p].cow \in DOMAIN table
               /\ rq[p].body = table[rq[p].cow]
               /\ ~rq[p].hit

\* the witness of C8: the repopulating SET failed and the GET answered 200
\* with a message
C8_Witness ==
    \E p \in Procs :
        /\ Answered(p) /\ Full /\ rq[p].op = "GET"
        /\ Did(rq[p], 1, "GET", "nil")
        /\ Did(rq[p], 2, "QUERY", "row")
        /\ Did(rq[p], 3, "SET", "err")
        /\ rq[p].status = StatusOK
        /\ rq[p].body # <<>>

\* C9 (as claimed): every entry the store has written carries an expiration
\* of at most 20 seconds once its SET and EXPIRE have gone out: no entry
\* stays in the cache without an expiration.
C9_EveryEntryExpires ==
    (\A p \in Procs : pc[p] # "expire")
        => \A n \in DOMAIN cache :
               cache[n].ttl # NoExpiry /\ cache[n].ttl <= TTL

\* C10 (as claimed): in Cache-only mode a POST answers 201 exactly when its
\* cache write, value and expiration, succeeded, and 500 CacheWriteFailed
\* otherwise.
C10_PutSucceedsIffCacheWritten ==
    \A p \in Procs :
        (Answered(p) /\ CacheOnly /\ rq[p].op = "POST" /\ Issued(rq[p], "SET"))
            => /\ rq[p].status = StatusCreated
                    <=> rq[p].calls = <<<<"SET", "ok">>, <<"EXPIRE", "ok">>>>
               /\ rq[p].status # StatusCreated
                    => /\ rq[p].status = StatusInternalServerError
                       /\ rq[p].err = "CacheWriteFailed"

\* C11: without any store every upsert is answered 500 "no storage
\* available"; it issues no tier command and neither store ever holds
\* anything.
C11_EphemeralPutFails ==
    Ephemeral =>
        /\ cache = EmptyMap
        /\ table = EmptyMap
        /\ \A p \in Procs :
              InFlight(p) /\ rq[p].op = "POST" =>
                  /\ Answered(p)
                  /\ rq[p].status = StatusInternalServerError
                  /\ rq[p].err = "NoStorageAvailable"
                  /\ rq[p].calls = <<>>

C11_Witness ==
    /\ Ephemeral
    /\ nops > 1
    /\ \E p \in Procs :
          /\ Answered(p)
          /\ rq[p].op = "POST"
          /\ rq[p].err = "NoStorageAvailable"

\* request p is a GET answered without any store
EphemeralGet(p) == Ephemeral /\ Answered(p) /\ rq[p].op = "GET"

ExampleAnswered(p, k) ==
    Full /\ Answered(p) /\ run = k - 1 /\ Clean(rq[p])

\* the upsert and the last GET of the ExampleRun: created, and not found
ExampleEnds(p) ==
    /\ ExampleAnswered(p, 1) => rq[p].status = StatusCreated
    /\ ExampleAnswered(p, 4) => rq[p].status = StatusNotFound

\* a GET answered with the text hello
AnsweredHello(p, hit) ==
    /\ rq[p].status = StatusOK
    /\ rq[p].body = <<"hello">>
    /\ rq[p].hit = hit

\* C13 as stated: the example run answers created; hello without the
\* cache-hit header; hello with it; not found.
C13_ExampleRun ==
    \A p \in Procs :
        /\ ExampleEnds(p)
        /\ ExampleAnswered(p, 2) => AnsweredHello(p, FALSE)
        /\ ExampleAnswered(p, 3) => AnsweredHello(p, TRUE)

\* C13: the example run answers created; hello with the cache-hit header
\* (the upsert has written the cache); hello with it again; not found.
C13_ExampleRunHitsAtOnce ==
    \A p \in Procs :
        /\ ExampleEnds(p)
        /\ ExampleAnswered(p, 2) =>
               AnsweredHello(p, TRUE) /\ rq[p].calls = << <<"GET", "value">> >>
        /\ ExampleAnswered(p, 3) =>
               AnsweredHello(p, TRUE) /\ rq[p].calls = << <<"GET", "value">> >>

C13_Witness ==
    \E p \in Procs :
        /\ ExampleAnswered(p, 4)
        /\ rq[p].cow = "bob"
        /\ rq[p].status = StatusNotFound
        /\ "alice" \in DOMAIN cache
        /\ table = [n \in {"alice"} |-> <<"hello">>]

\* what store f holds for name n, if anything
At(f, n) == IF n \in DOMAIN f THEN <<f[n]>> ELSE <<>>

\* What an upsert r leaves for its figure in stores that were empty, when it
\* runs by itself: the row if the upsert statement succeeded, the key if SET
\* succeeded, with the time to live EXPIRE gave it if EXPIRE succeeded.
LeftByPut(r) ==
    /\ At(table, r.cow) =
           IF \E i \in 1..Len(r.calls) : r.calls[i] = <<"EXEC", "ok">>
           THEN <<r.say>> ELSE <<>>
    /\ At(cache, r.cow) =
           IF \E i \in 1..Len(r.calls) : r.calls[i] = <<"SET", "ok">>
           THEN << [val |-> r.say,
                    ttl |-> IF \E i \in 1..Len(r.calls) :
                                  r.calls[i] = <<"EXPIRE", "ok">>
                            THEN TTL ELSE NoExpiry] >>
           ELSE <<>>

\* p and q are the only two requests so far, both upserts, both answered
TwoPuts(p, q) ==
    /\ p # q
    /\ nops = 2
    /\ Answered(p) /\ rq[p].op = "POST"
    /\ Answered(q) /\ rq[q].op = "POST"

\* a step of an upsert leaves every other figure as it is in both stores
PutKeepsOthers ==
    \A p \in Procs :
        (pc'[p] # pc[p] /\ (rq[p].op = "POST" \/ rq'[p].op = "POST")) =>
            \A n \in Names :
                (n # rq[p].cow /\ n # rq'[p].cow) =>
                    /\ At(cache', n) = At(cache, n)
                    /\ At(table', n) = At(table, n)

\* C14: two upserts of different figures, however their tier commands
\* interleave, leave for each figure what its upsert leaves when it runs by
\* itself; and no step of an upsert changes the row, the key or the time to
\* live of another figure.
C14_DistinctNamesDoNotInterfere ==
    /\ [](\A p, q \in Procs :
            TwoPuts(p, q) /\ rq[p].cow # rq[q].cow =>
                LeftByPut(rq[p]) /\ LeftByPut(rq[q]))
    /\ [][PutKeepsOthers]_vars

C14_Witness ==
    \E p, q \in Procs :
        /\ TwoPuts(p, q)
        /\ Full
        /\ rq[p].cow # rq[q].cow
        /\ rq[p].say # rq[q].say
        /\ Len(rq[p].calls) = 3 /\ Clean(rq[p])
        /\ Len(rq[q].calls) = 3 /\ Clean(rq[q])
        /\ LeftByPut(rq[p]) /\ LeftByPut(rq[q])

\* the mode the spec's table leaves out: the database without the cache
DurableOnly == ~redispool /\ db

\* C15 as stated: the mode is Ephemeral, Cache-only or Full; the database is
\* never there without the cache.
C15_ThreeModes == Ephemeral \/ CacheOnly \/ Full

\* C15: each store is there exactly when its own setting is, whatever the
\* other setting is, and stays so; with DB_NAME set and REDIS_HOST not set
\* the database is there without the cache, and the cache holds nothing.
C15_ModeFollowsSettings ==
    /\ [](/\ redispool = env.REDIS_HOST
          /\ db = env.DB_NAME
          /\ (env.DB_NAME /\ ~env.REDIS_HOST) => DurableOnly /\ cache = EmptyMap)
    /\ [][redispool' = redispool /\ db' = db]_vars

C15_Witness ==
    /\ DurableOnly
    /\ \E p \in Procs :
          /\ Answered(p)
          /\ rq[p].op = "GET"
          /\ rq[p].status = StatusOK
          /\ rq[p].calls = << <<"QUERY", "row">> >>

\* C16: an upsert with a database sends SET and EXPIRE only after its upsert
\* statement has succeeded; a GET with a cache sends its SELECT only after
\* its cache read has returned, and SET and EXPIRE only after its SELECT has
\* returned a row.
C16_OrderWithinRequest ==
    \A p \in Procs :
        LET c == rq[p].calls
            CacheWriteAt(i) == c[i][1] \in {"SET", "EXPIRE"}
            Before(i, cmd, o) ==
                \E j \in 1..(i - 1) :
                    /\ c[j] = <<cmd, o>>
                    /\ \A k \in (j + 1)..(i - 1) : CacheWriteAt(k)
        IN  /\ (db /\ rq[p].op = "POST") =>
                \A i \in 1..Len(c) :
                    CacheWriteAt(i) => Before(i, "EXEC", "ok")
            /\ (redispool /\ rq[p].op = "GET") =>
                \A i \in 1..Len(c) :
                    /\ c[i][1] = "QUERY" => (i = 2 /\ c[1][1] = "GET")
                    /\ CacheWriteAt(i) => Before(i, "QUERY", "row")

C16_Witness ==
    \E p, q \in Procs :
        /\ Full
        /\ Answered(p)
        /\ rq[p].op = "GET"
        /\ rq[p].calls = << <<"GET", "nil">>, <<"QUERY", "row">>,
                            <<"SET", "ok">>, <<"EXPIRE", "ok">> >>
        /\ rq[q].op = "POST"
        /\ rq[q].calls = << <<"EXEC", "ok">>, <<"SET", "ok">> >>

\* the texts of those of requests p and q whose tier command cmd succeeded
Wrote(p, q, cmd) ==
    {rq[w].say : w \in {v \in {p, q} :
                          \E i \in 1..Len(rq[v].calls) :
                              rq[v].calls[i] = <<cmd, "ok">>}}

\* C17: after two upserts of the same figure that ran together, the row
\* holds the text of one of them whose upsert statement succeeded, and the
\* key the text of one of them whose SET succeeded; never anything else.
C17_SameNameLastWriteWins ==
    \A p, q \in Procs :
        (TwoPuts(p, q) /\ Full /\ rq[p].cow = rq[q].cow) =>
            LET n == rq[p].cow
            IN  /\ n \in DOMAIN table <=> Wrote(p, q, "EXEC") # {}
                /\ n \in DOMAIN table => table[n] \in Wrote(p, q, "EXEC")
                /\ n \in DOMAIN cache <=> Wrote(p, q, "SET") # {}
                /\ n \in DOMAIN cache => cache[n].val \in Wrote(p, q, "SET")

\* the two upserts, neither with a failing tier command, have left the row
\* with the text of one and the key with the text of the other: a GET now is
\* a cache hit that returns hello while the row says otherwise
C17_Witness ==
    \E p, q \in Procs :
        /\ TwoPuts(p, q)
        /\ Full
        /\ rq[p].cow = rq[q].cow
        /\ Len(rq[p].calls) = 3 /\ Clean(rq[p]) /\ rq[p].status = StatusCreated
        /\ Len(rq[q].calls) = 3 /\ Clean(rq[q]) /\ rq[q].status = StatusCreated
        /\ table[rq[p].cow] = rq[p].say
        /\ cache[rq[p].cow].val = rq[q].say
        /\ rq[p].say = <<>>
        /\ rq[q].say = <<"hello">>

\* how many times request r issued tier command cmd
Times(r, cmd) == Cardinality({i \in 1..Len(r.calls) : r.calls[i][1] = cmd})

\* a step of request p, whatever it is
Proceed(p) ==
    \/ getRedisVal(p)
    \/ passThroughSaveVal(p)
    \/ passThroughGetVal(p)
    \/ setRedisVal(p)
    \/ setRedisValExpire(p)
    \/ Respond(p)

\* C18: a request issues each tier command at most once, failed or not: an
\* upsert at most one upsert statement and one SET with its EXPIRE, and no
\* read; a GET at most one cache read, one SELECT and one SET with its
\* EXPIRE, and no upsert statement.  A request in flight can always take
\* its next step, so it is over after at most three, respectively four,
\* tier commands.
C18_NoRetries ==
    \A p \in Procs :
        InFlight(p) =>
            /\ \A cmd \in {"GET", "EXEC", "QUERY", "SET", "EXPIRE"} :
                   Times(rq[p], cmd) <= 1
            /\ rq[p].op = "POST" =>
                   /\ Times(rq[p], "GET") + Times(rq[p], "QUERY") = 0
                   /\ Len(rq[p].calls) <= 3
            /\ rq[p].op = "GET" =>
                   /\ Times(rq[p], "EXEC") = 0
                   /\ Len(rq[p].calls) <= 4
            /\ ENABLED Proceed(p)

C18_Witness ==
    \E p \in Procs :
        /\ Answered(p)
        /\ rq[p].op = "GET"
        /\ rq[p].calls = << <<"GET", "err">>, <<"QUERY", "row">>,
                            <<"SET", "err">>, <<"EXPIRE", "ok">> >>

\* C19: with both stores, whatever the interleaving and whichever tier
\* commands fail, the text of every key is a text the row of that name holds
\* or has held; and a request about to send SET has just had its upsert
\* statement succeed, or its SELECT return a row, with the text it sends.
C19_CacheHoldsWhatDurableHeld ==
    Full =>
        /\ \A n \in DOMAIN cache : cache[n].val \in held[n]
        /\ \A p \in Procs :
               pc[p] = "set" =>
                   /\ rq[p].calls[Len(rq[p].calls)] \in
                          {<<"EXEC", "ok">>, <<"QUERY", "row">>}
                   /\ rq[p].say \in held[rq[p].cow]

\* a key keeps a text the row has held and holds no more, after requests
\* that ran together and of which one had a tier command fail
C19_Witness ==
    \E n \in DOMAIN cache :
        /\ Full
        /\ n \in DOMAIN table
        /\ cache[n].val # table[n]
        /\ cache[n].val \in held[n]
        /\ \E p \in Procs : Answered(p) /\ ~Clean(rq[p]) /\ ~rq[p].alone

\* C20: with both stores and no request in flight, a key that a GET is
\* answered from (its text is not empty) and whose text differs from the row
\* of its name is dropped within the twenty seconds that follow the cache
\* write that made it: the key has a time to live, of at most twenty
\* seconds, so that a GET returns the row's text once it has run out.
C20_StaleEntryExpires ==
    (Full /\ Quiescent) =>
        \A n \in DOMAIN cache :
            (/\ CacheHit(cache[n].val, FALSE)
             /\ n \in DOMAIN table
             /\ cache[n].val # table[n]) =>
                cache[n].ttl \in 1..TTL

====
